---- MODULE Spec2Model ----
(***************************************************************************)
(* Authority Graph Builder (authority-graph-builder.js).                   *)
(*                                                                         *)
(* buildAuthorityGraph(events) validates a flat array of authority events, *)
(* turns every event into a normalized edge, groups the edges by wallet,   *)
(* sorts every group with a four-key comparator and returns the            *)
(* wallet -> { wallet, authority_edges } mapping.                          *)
(*                                                                         *)
(* JavaScript strings are modelled as sequences of one-character strings,  *)
(* so that toUpperCase, includes, localeCompare and String(number) are     *)
(* computed and not assumed.  A JavaScript value is a record               *)
(* [k |-> kind, n |-> number, s |-> string] with kind one of "undefined",  *)
(* "null", "number", "string" (a missing property reads as undefined).     *)
(* Numbers are the non-negative integers of the data model (block,         *)
(* timestamp, log_index, numeric amount); NaN and fractions are outside    *)
(* the model.                                                              *)
(***************************************************************************)
EXTENDS Integers, Sequences, FiniteSets, Bags, TLC

\* ------------------------------------------------------------------------
\* Bounds of the model
\* ------------------------------------------------------------------------

\* longest events array explored
MaxEvents == 4

\* ------------------------------------------------------------------------
\* Characters and strings
\* ------------------------------------------------------------------------

Digits == <<"0", "1", "2", "3", "4", "5", "6", "7", "8", "9">>

Upper == <<"A", "B", "C", "D", "E", "F", "G", "H", "I", "J", "K", "L", "M",
           "N", "O", "P", "Q", "R", "S", "T", "U", "V", "W", "X", "Y", "Z">>

Lower == <<"a", "b", "c", "d", "e", "f", "g", "h", "i", "j", "k", "l", "m",
           "n", "o", "p", "q", "r", "s", "t", "u", "v", "w", "x", "y", "z">>

Range(f) == {f[i] : i \in DOMAIN f}

Alphabet == Range(Digits) \cup Range(Upper) \cup Range(Lower) \cup {"_"}

IndexIn(seq, c) == CHOOSE i \in DOMAIN seq : seq[i] = c

\* UTF-16 code unit of a character (ASCII)
CodeUnit ==
  [c \in Alphabet |->
     IF c \in Range(Digits) THEN 47 + IndexIn(Digits, c)
     ELSE IF c \in Range(Upper) THEN 64 + IndexIn(Upper, c)
     ELSE IF c \in Range(Lower) THEN 96 + IndexIn(Lower, c)
     ELSE 95]

\* String.prototype.toUpperCase, one character
UpperChar ==
  [c \in Alphabet |-> IF c \in Range(Lower) THEN Upper[IndexIn(Lower, c)] ELSE c]

toUpperCase(s) == [i \in DOMAIN s |-> UpperChar[s[i]]]

\* String.prototype.includes
includes(s, t) ==
  \E i \in 0..(Len(s) - Len(t)) :
    \A j \in 1..Len(t) : s[i + j] = t[j]

\* the first position where s and t differ, or 0 when one is a prefix of
\* the other
FirstDiff(s, t) ==
  LET both == {i \in 1..Len(s) : i <= Len(t) /\ s[i] # t[i]}
  IN  IF both = {} THEN 0 ELSE CHOOSE i \in both : \A j \in both : i <= j

\* lexicographic three-way comparison of two sequences of numbers
SeqCompare(ks, kt) ==
  LET d == FirstDiff(ks, kt)
  IN  IF d # 0 THEN (IF ks[d] < kt[d] THEN -1 ELSE 1)
      ELSE IF Len(ks) < Len(kt) THEN -1
      ELSE IF Len(ks) > Len(kt) THEN 1
      ELSE 0

\* code-unit lexicographic order of two strings (the order of < on strings)
CodeUnitCompare(s, t) ==
  SeqCompare([i \in DOMAIN s |-> CodeUnit[s[i]]],
             [i \in DOMAIN t |-> CodeUnit[t[i]]])

\* Collation weights of a character: the primary weight ignores case
\* (digits before letters, "_" before both), the tertiary weight puts a
\* lower-case letter before its upper-case form.
PrimaryWeight ==
  [c \in Alphabet |-> IF c = "_" THEN 0 ELSE CodeUnit[
     IF c \in Range(Upper) THEN Lower[IndexIn(Upper, c)] ELSE c]]

TertiaryWeight == [c \in Alphabet |-> IF c \in Range(Upper) THEN 1 ELSE 0]

\* String.prototype.localeCompare without arguments: collation order, all
\* primary weights first, the case (tertiary) weights only on a primary tie.
localeCompare(s, t) ==
  LET p == SeqCompare([i \in DOMAIN s |-> PrimaryWeight[s[i]]],
                      [i \in DOMAIN t |-> PrimaryWeight[t[i]]])
  IN  IF p # 0 THEN p
      ELSE SeqCompare([i \in DOMAIN s |-> TertiaryWeight[s[i]]],
                      [i \in DOMAIN t |-> TertiaryWeight[t[i]]])

\* ------------------------------------------------------------------------
\* JavaScript values
\* ------------------------------------------------------------------------

Undefined == [k |-> "undefined", n |-> 0, s |-> <<>>]

Null == [k |-> "null", n |-> 0, s |-> <<>>]

Num(n) == [k |-> "number", n |-> n, s |-> <<>>]

Str(s) == [k |-> "string", n |-> 0, s |-> s]

\* ToBoolean: undefined, null, 0 and "" are falsy
Truthy(v) ==
  \/ v.k = "string" /\ v.s # <<>>
  \/ v.k = "number" /\ v.n # 0

\* v === null || v === undefined
IsNullish(v) == v.k \in {"undefined", "null"}

RECURSIVE DecimalString(_)
\* Number.prototype.toString of a non-negative integer below 10^21 (from
\* there on the engine prints an exponent)
DecimalString(n) ==
  IF n < 10 THEN <<Digits[n + 1]>>
  ELSE Append(DecimalString(n \div 10), Digits[(n % 10) + 1])

\* String(v)
JsString(v) ==
  CASE v.k = "string" -> v.s
    [] v.k = "number" -> DecimalString(v.n)
    [] v.k = "null" -> <<"n", "u", "l", "l">>
    [] v.k = "undefined" -> <<"u", "n", "d", "e", "f", "i", "n", "e", "d">>

RECURSIVE ParseDecimal(_)
\* numeric value of a string of decimal digits ("" is 0)
ParseDecimal(s) ==
  IF s = <<>> THEN 0
  ELSE 10 * ParseDecimal(SubSeq(s, 1, Len(s) - 1))
       + (IndexIn(Digits, s[Len(s)]) - 1)

\* Number(v) for the values of the data model: numbers, and strings of
\* decimal digits
ToNumber(v) ==
  CASE v.k = "number" -> v.n
    [] v.k = "string" -> ParseDecimal(v.s)
    [] v.k = "null" -> 0

\* ------------------------------------------------------------------------
\* normalizeAmount
\* ------------------------------------------------------------------------

\* the decimal digits of 2^256 - 1
MaxUint256Digits ==
  <<"1", "1", "5", "7", "9", "2", "0", "8", "9", "2", "3", "7", "3",
    "1", "6", "1", "9", "5", "4", "2", "3", "5", "7", "0", "9", "8",
    "5", "0", "0", "8", "6", "8", "7", "9", "0", "7", "8", "5", "3",
    "2", "6", "9", "9", "8", "4", "6", "6", "5", "6", "4", "0", "5",
    "6", "4", "0", "3", "9", "4", "5", "7", "5", "8", "4", "0", "0",
    "7", "9", "1", "3", "1", "2", "9", "6", "3", "9", "9", "3", "5">>

S_MAX_UINT == <<"M", "A", "X", "_", "U", "I", "N", "T">>

S_UNLIMITED == <<"U", "N", "L", "I", "M", "I", "T", "E", "D">>

S_unlimited == <<"u", "n", "l", "i", "m", "i", "t", "e", "d">>

S_zero == <<"0">>

S_UNKNOWN == <<"U", "N", "K", "N", "O", "W", "N">>

\* the special values are matched against the string as given, not its
\* upper-case form
normalizeAmount_NoCaseFold(amount) ==
  IF IsNullish(amount) THEN S_unlimited
  ELSE LET amountStr == JsString(amount)
       IN  IF \/ amountStr = S_MAX_UINT
              \/ amountStr = S_UNLIMITED
              \/ includes(amountStr, MaxUint256Digits)
           THEN S_unlimited
           ELSE IF amountStr = S_zero THEN S_zero
           ELSE JsString(amount)

\* the upper-case string used for matching is the one returned
normalizeAmount_ReturnsUpper(amount) ==
  IF IsNullish(amount) THEN S_unlimited
  ELSE LET amountStr == toUpperCase(JsString(amount))
       IN  IF \/ amountStr = S_MAX_UINT
              \/ amountStr = S_UNLIMITED
              \/ includes(amountStr, MaxUint256Digits)
           THEN S_unlimited
           ELSE IF amountStr = S_zero THEN S_zero
           ELSE amountStr

\* an ordinary amount loses one leading zero
normalizeAmount_StripsLeadingZero(amount) ==
  IF IsNullish(amount) THEN S_unlimited
  ELSE LET amountStr == toUpperCase(JsString(amount))
       IN  IF \/ amountStr = S_MAX_UINT
              \/ amountStr = S_UNLIMITED
              \/ includes(amountStr, MaxUint256Digits)
           THEN S_unlimited
           ELSE IF amountStr = S_zero THEN S_zero
           ELSE IF Len(JsString(amount)) > 1 /\ Head(JsString(amount)) = "0"
           THEN Tail(JsString(amount))
           ELSE JsString(amount)

\* lines 15-36

normalizeAmount(amount) ==
  IF IsNullish(amount) THEN S_unlimited
  ELSE LET amountStr == toUpperCase(JsString(amount))
       IN  IF \/ amountStr = S_MAX_UINT
              \/ amountStr = S_UNLIMITED
              \/ includes(amountStr, MaxUint256Digits)
           THEN S_unlimited
           ELSE IF amountStr = S_zero THEN S_zero
           ELSE JsString(amount)

\* ------------------------------------------------------------------------
\* Events and edges
\* ------------------------------------------------------------------------

\* log_index is tested for truthiness, as tx_hash is
buildEdge_TruthyLogIndex(event, idx) ==
  [type |-> event.authority_type,
   contract |-> event.contract,
   target_entity |-> event.target_entity,
   amount |-> normalizeAmount(event.amount),
   block |-> ToNumber(event.block),
   timestamp |-> ToNumber(event.timestamp),
   revocation_possible |-> S_UNKNOWN,
   tx_hash |-> IF Truthy(event.tx_hash) THEN event.tx_hash ELSE Undefined,
   log_index |-> IF Truthy(event.log_index)
                 THEN Num(ToNumber(event.log_index)) ELSE Undefined,
   src |-> idx]

\* revocation_possible is computed: an unlimited grant is reported revocable
buildEdge_ComputesRevocation(event, idx) ==
  [type |-> event.authority_type,
   contract |-> event.contract,
   target_entity |-> event.target_entity,
   amount |-> normalizeAmount(event.amount),
   block |-> ToNumber(event.block),
   timestamp |-> ToNumber(event.timestamp),
   revocation_possible |->
     IF normalizeAmount(event.amount) = S_unlimited
     THEN <<"Y", "E", "S">> ELSE S_UNKNOWN,
   tx_hash |-> IF Truthy(event.tx_hash) THEN event.tx_hash ELSE Undefined,
   log_index |-> IF ~IsNullish(event.log_index)
                 THEN Num(ToNumber(event.log_index)) ELSE Undefined,
   src |-> idx]

\* contract and target_entity change places
buildEdge_SwapTarget(event, idx) ==
  [type |-> event.authority_type,
   contract |-> event.target_entity,
   target_entity |-> event.contract,
   amount |-> normalizeAmount(event.amount),
   block |-> ToNumber(event.block),
   timestamp |-> ToNumber(event.timestamp),
   revocation_possible |-> S_UNKNOWN,
   tx_hash |-> IF Truthy(event.tx_hash) THEN event.tx_hash ELSE Undefined,
   log_index |-> IF ~IsNullish(event.log_index)
                 THEN Num(ToNumber(event.log_index)) ELSE Undefined,
   src |-> idx]

\* the edge buildAuthorityGraph builds from one event; absent optional
\* fields read as undefined.  src is not a field of the JavaScript object:
\* it stands for the identity of the edge object (the position of the event
\* it was built from), which the comparator never reads.
buildEdge(event, idx) ==
  [type |-> event.authority_type,
   contract |-> event.contract,
   target_entity |-> event.target_entity,
   amount |-> normalizeAmount(event.amount),
   block |-> ToNumber(event.block),
   timestamp |-> ToNumber(event.timestamp),
   revocation_possible |-> S_UNKNOWN,
   tx_hash |-> IF Truthy(event.tx_hash) THEN event.tx_hash ELSE Undefined,
   log_index |-> IF ~IsNullish(event.log_index)
                 THEN Num(ToNumber(event.log_index)) ELSE Undefined,
   src |-> idx]

\* block and timestamp are validated before the four string fields
missingField_NumbersFirst(event) ==
  IF IsNullish(event.block) THEN "block"
  ELSE IF IsNullish(event.timestamp) THEN "timestamp"
  ELSE IF ~Truthy(event.wallet) THEN "wallet"
  ELSE IF ~Truthy(event.contract) THEN "contract"
  ELSE IF ~Truthy(event.authority_type) THEN "authority_type"
  ELSE IF ~Truthy(event.target_entity) THEN "target_entity"
  ELSE ""

\* block and timestamp are tested for falsiness like the four string fields
missingField_FalsyNumbers(event) ==
  IF ~Truthy(event.wallet) THEN "wallet"
  ELSE IF ~Truthy(event.contract) THEN "contract"
  ELSE IF ~Truthy(event.authority_type) THEN "authority_type"
  ELSE IF ~Truthy(event.target_entity) THEN "target_entity"
  ELSE IF ~Truthy(event.block) THEN "block"
  ELSE IF ~Truthy(event.timestamp) THEN "timestamp"
  ELSE ""

\* the first required field the validation finds missing, or "" when the
\* event passes
missingField(event) ==
  IF ~Truthy(event.wallet) THEN "wallet"
  ELSE IF ~Truthy(event.contract) THEN "contract"
  ELSE IF ~Truthy(event.authority_type) THEN "authority_type"
  ELSE IF ~Truthy(event.target_entity) THEN "target_entity"
  ELSE IF IsNullish(event.block) THEN "block"
  ELSE IF IsNullish(event.timestamp) THEN "timestamp"
  ELSE ""

\* property names every plain object inherits from Object.prototype: for
\* these keys walletGroups[wallet] is truthy before anything was stored
ObjectPrototypeKeys ==
  {<<"c", "o", "n", "s", "t", "r", "u", "c", "t", "o", "r">>,
   <<"t", "o", "S", "t", "r", "i", "n", "g">>,
   <<"v", "a", "l", "u", "e", "O", "f">>,
   <<"_", "_", "p", "r", "o", "t", "o", "_", "_">>}

\* ------------------------------------------------------------------------
\* The sort comparator and Array.prototype.sort
\* ------------------------------------------------------------------------

\* the operands of the block difference change places
compareEdges_BlockDescending(a, b) ==
  IF a.block # b.block THEN b.block - a.block
  ELSE a.timestamp - b.timestamp

\* the tx_hash step is left out
compareEdges_NoTxHash(a, b) ==
  IF a.block # b.block THEN a.block - b.block
  ELSE IF a.log_index # Undefined /\ b.log_index # Undefined
       THEN a.log_index.n - b.log_index.n
  ELSE a.timestamp - b.timestamp

\* the comparator passed to sort: negative when a ranks before b
compareEdges(a, b) ==
  IF a.block # b.block THEN a.block - b.block
  ELSE IF Truthy(a.tx_hash) /\ Truthy(b.tx_hash) /\ a.tx_hash # b.tx_hash
       THEN localeCompare(a.tx_hash.s, b.tx_hash.s)
  ELSE IF a.log_index # Undefined /\ b.log_index # Undefined
       THEN a.log_index.n - b.log_index.n
  ELSE a.timestamp - b.timestamp

\* Array.prototype.sort as the engine running the builder (Node.js, V8)
\* computes it for arrays shorter than 64 elements: the leading run is
\* counted (and reversed when strictly descending), the remaining elements
\* are placed by binary insertion.  Positions are 0-based as in the engine;
\* arr[p + 1] is the element at position p.

RECURSIVE RunEnd(_, _, _)
\* length of the run starting at position 0, idx being the next position
\* to look at
RunEnd(arr, idx, isDescending) ==
  IF idx >= Len(arr) THEN idx
  ELSE LET order == compareEdges(arr[idx + 1], arr[idx])
       IN  IF isDescending
           THEN (IF order >= 0 THEN idx ELSE RunEnd(arr, idx + 1, isDescending))
           ELSE (IF order < 0 THEN idx ELSE RunEnd(arr, idx + 1, isDescending))

ReverseRange(arr, n) ==
  [p \in DOMAIN arr |-> IF p <= n THEN arr[n + 1 - p] ELSE arr[p]]

\* [arr, runLength] after the leading run is made ascending
CountAndMakeRun(arr) ==
  LET isDescending == compareEdges(arr[2], arr[1]) < 0
      runLength == RunEnd(arr, 2, isDescending)
  IN  [arr |-> IF isDescending THEN ReverseRange(arr, runLength) ELSE arr,
       runLength |-> runLength]

RECURSIVE BinarySearch(_, _, _, _)
\* the position where pivot is inserted in the sorted range [left, right)
BinarySearch(arr, pivot, left, right) ==
  IF left < right
  THEN LET mid == left + ((right - left) \div 2)
       IN  IF compareEdges(pivot, arr[mid + 1]) < 0
           THEN BinarySearch(arr, pivot, left, mid)
           ELSE BinarySearch(arr, pivot, mid + 1, right)
  ELSE left

RECURSIVE BinaryInsertionSort(_, _)
\* positions [0, start) are sorted; insert the elements from start on
BinaryInsertionSort(arr, start) ==
  IF start >= Len(arr) THEN arr
  ELSE LET pivot == arr[start + 1]
           left == BinarySearch(arr, pivot, 0, start)
           moved == [p \in DOMAIN arr |->
                      IF p - 1 < left \/ p - 1 > start THEN arr[p]
                      ELSE IF p - 1 = left THEN pivot
                      ELSE arr[p - 1]]
       IN  BinaryInsertionSort(moved, start + 1)

ArraySort(arr) ==
  IF Len(arr) < 2 THEN arr
  ELSE LET run == CountAndMakeRun(arr)
       IN  BinaryInsertionSort(run.arr, run.runLength)

\* ------------------------------------------------------------------------
\* State of one call of buildAuthorityGraph
\* ------------------------------------------------------------------------

VARIABLES
  argKind,       \* what the caller passed: "array" or a non-array kind
  events,        \* the caller's array (empty for a non-array argument)
  pc,            \* "start", "loop", "sort", "build", "returned", "thrown";
                 \* "idle" when buildAuthorityGraph is not called at all
  i,             \* position of the event the for-of loop examines next
  walletGroups,  \* own properties of walletGroups: wallet -> edge list
  walletOrder,   \* own keys of walletGroups in creation (for-in) order
  sortIdx,       \* position in walletOrder of the group sorted next
  results,       \* the returned object: wallet -> WalletGraph
  error,         \* the Error thrown, [name, field]
  amountCall,    \* a caller of normalizeAmount: [pc, raw, out, again]
  previous,      \* a caller that calls twice: [calls, events, pc, results,
                 \* error] of its first call
  single,        \* the frame of buildSingleWalletGraph: [pc, graph, error]
  other          \* the frame of a second call of buildAuthorityGraph that is
                 \* suspended while this one runs

\* the frame of buildAuthorityGraph
frame == <<argKind, events, pc, i, walletGroups, walletOrder, sortIdx,
           results, error>>

\* the callers around it
callers == <<amountCall, previous, single, other>>

vars == <<argKind, events, pc, i, walletGroups, walletOrder, sortIdx,
          results, error, amountCall, previous, single, other>>

NoError == [name |-> "", field |-> ""]

\* a length check in place of Array.isArray lets a string through
IsArray_HasLength(kind) == kind \in {"array", "string"}

\* Array.isArray(events)
IsArray(kind) == kind = "array"

\* the edge list is looked up under the contract in place of the wallet
groupKey_Contract(event) == event.contract.s

\* const wallet = event.wallet: the property key of the event's group
groupKey(event) == event.wallet.s

EmptyObject == [w \in {} |-> <<>>]

\* lines 45-47: if (!Array.isArray(events)) throw
RejectNonArray ==
  /\ pc = "start"
  /\ ~IsArray(argKind)
  /\ pc' = "thrown"
  /\ error' = [name |-> "InvalidInput", field |-> ""]
  /\ UNCHANGED <<argKind, events, i, walletGroups, walletOrder, sortIdx,
                 results>>
  /\ UNCHANGED callers

\* an empty array is refused as an input with nothing to process
ReturnEmpty_Throws ==
  /\ pc = "start"
  /\ IsArray(argKind)
  /\ Len(events) = 0
  /\ pc' = "thrown"
  /\ error' = [name |-> "InvalidInput", field |-> ""]
  /\ UNCHANGED <<argKind, events, i, walletGroups, walletOrder, sortIdx,
                 results>>
  /\ UNCHANGED callers

\* lines 49-51: if (events.length === 0) return {}
ReturnEmpty ==
  /\ pc = "start"
  /\ IsArray(argKind)
  /\ Len(events) = 0
  /\ pc' = "returned"
  /\ results' = EmptyObject
  /\ UNCHANGED <<argKind, events, i, walletGroups, walletOrder, sortIdx,
                 error>>
  /\ UNCHANGED callers

\* walletGroups lives outside the function and is not emptied at the call
EnterLoop_KeepsGroups ==
  /\ pc = "start"
  /\ IsArray(argKind)
  /\ Len(events) > 0
  /\ pc' = "loop"
  /\ i' = 1
  /\ UNCHANGED <<argKind, events, walletGroups, walletOrder, sortIdx,
                 results, error>>
  /\ UNCHANGED callers

\* lines 54-56: const walletGroups = {}; the loop starts
EnterLoop ==
  /\ pc = "start"
  /\ IsArray(argKind)
  /\ Len(events) > 0
  /\ pc' = "loop"
  /\ i' = 1
  /\ walletGroups' = EmptyObject
  /\ walletOrder' = <<>>
  /\ UNCHANGED <<argKind, events, sortIdx, results, error>>
  /\ UNCHANGED callers

\* lines 58-75: a required field of the event is missing
ThrowMissingField ==
  /\ pc = "loop"
  /\ missingField(events[i]) # ""
  /\ pc' = "thrown"
  /\ error' = [name |-> "MissingField", field |-> missingField(events[i])]
  /\ UNCHANGED <<argKind, events, i, walletGroups, walletOrder, sortIdx,
                 results>>
  /\ UNCHANGED callers

\* lines 79-102 for a wallet naming an inherited property: walletGroups[wallet]
\* is truthy, no array is created and .push is not a function
ThrowNotAFunction ==
  /\ pc = "loop"
  /\ missingField(events[i]) = ""
  /\ groupKey(events[i]) \notin DOMAIN walletGroups
  /\ groupKey(events[i]) \in ObjectPrototypeKeys
  /\ pc' = "thrown"
  /\ error' = [name |-> "TypeError", field |-> ""]
  /\ UNCHANGED <<argKind, events, i, walletGroups, walletOrder, sortIdx,
                 results>>
  /\ UNCHANGED callers

\* the amount is normalized in place on the caller's event before the edge
\* is built
PushEdge_NormalizesEvent ==
  /\ pc = "loop"
  /\ missingField(events[i]) = ""
  /\ LET wallet == groupKey(events[i])
         edge == buildEdge(events[i], i)
     IN  /\ wallet \in DOMAIN walletGroups \/ wallet \notin ObjectPrototypeKeys
         /\ walletGroups' =
              IF wallet \in DOMAIN walletGroups
              THEN [walletGroups EXCEPT ![wallet] = Append(@, edge)]
              ELSE [w \in DOMAIN walletGroups \cup {wallet} |->
                      IF w = wallet THEN <<edge>> ELSE walletGroups[w]]
         /\ walletOrder' =
              IF wallet \in DOMAIN walletGroups THEN walletOrder
              ELSE Append(walletOrder, wallet)
  /\ events' = [events EXCEPT
                  ![i].amount = Str(normalizeAmount(events[i].amount))]
  /\ IF i = Len(events)
     THEN pc' = "sort" /\ sortIdx' = 1 /\ i' = i
     ELSE pc' = "loop" /\ i' = i + 1 /\ sortIdx' = sortIdx
  /\ UNCHANGED <<argKind, results, error>>
  /\ UNCHANGED callers

\* lines 77-103: the edge is built and pushed to its wallet's list; after
\* the last event the loop ends
PushEdge ==
  /\ pc = "loop"
  /\ missingField(events[i]) = ""
  /\ LET wallet == groupKey(events[i])
         edge == buildEdge(events[i], i)
     IN  /\ wallet \in DOMAIN walletGroups \/ wallet \notin ObjectPrototypeKeys
         /\ walletGroups' =
              IF wallet \in DOMAIN walletGroups
              THEN [walletGroups EXCEPT ![wallet] = Append(@, edge)]
              ELSE [w \in DOMAIN walletGroups \cup {wallet} |->
                      IF w = wallet THEN <<edge>> ELSE walletGroups[w]]
         /\ walletOrder' =
              IF wallet \in DOMAIN walletGroups THEN walletOrder
              ELSE Append(walletOrder, wallet)
  /\ IF i = Len(events)
     THEN pc' = "sort" /\ sortIdx' = 1 /\ i' = i
     ELSE pc' = "loop" /\ i' = i + 1 /\ sortIdx' = sortIdx
  /\ UNCHANGED <<argKind, events, results, error>>
  /\ UNCHANGED callers

\* lines 107-127: one iteration of the for-in loop sorts one wallet's list
SortGroup ==
  /\ pc = "sort"
  /\ LET wallet == walletOrder[sortIdx]
     IN  walletGroups' =
           [walletGroups EXCEPT ![wallet] = ArraySort(walletGroups[wallet])]
  /\ IF sortIdx = Len(walletOrder)
     THEN pc' = "build" /\ sortIdx' = sortIdx
     ELSE pc' = "sort" /\ sortIdx' = sortIdx + 1
  /\ UNCHANGED <<argKind, events, i, walletOrder, results, error>>
  /\ UNCHANGED callers

\* lines 130-139: the output object is built and returned
BuildResults ==
  /\ pc = "build"
  /\ results' = [wallet \in DOMAIN walletGroups |->
                   [wallet |-> wallet,
                    authority_edges |-> walletGroups[wallet]]]
  /\ pc' = "returned"
  /\ UNCHANGED <<argKind, events, i, walletGroups, walletOrder, sortIdx,
                 error>>
  /\ UNCHANGED callers

\* lines 43-140 run from the first line to the last with nothing in between:
\* the outcome of buildAuthorityGraph(evs) as one function of its argument
RunAlone(kind, evs) ==
  IF ~IsArray(kind)
  THEN [pc |-> "thrown", results |-> EmptyObject,
        error |-> [name |-> "InvalidInput", field |-> ""]]
  ELSE IF Len(evs) = 0
  THEN [pc |-> "returned", results |-> EmptyObject, error |-> NoError]
  ELSE
    LET throws(k) == \/ missingField(evs[k]) # ""
                     \/ groupKey(evs[k]) \in ObjectPrototypeKeys
        throwing == {k \in 1..Len(evs) : throws(k)}
    IN  IF throwing # {}
        THEN LET k == CHOOSE m \in throwing : \A n \in throwing : m <= n
             IN  [pc |-> "thrown", results |-> EmptyObject,
                  error |-> IF missingField(evs[k]) # ""
                            THEN [name |-> "MissingField",
                                  field |-> missingField(evs[k])]
                            ELSE [name |-> "TypeError", field |-> ""]]
        ELSE LET wallets == {groupKey(evs[k]) : k \in 1..Len(evs)}
                 group(wallet) ==
                   LET at == SelectSeq([k \in 1..Len(evs) |-> k],
                                       LAMBDA k : groupKey(evs[k]) = wallet)
                   IN  [n \in 1..Len(at) |-> buildEdge(evs[at[n]], at[n])]
             IN  [pc |-> "returned",
                  results |-> [wallet \in wallets |->
                                 [wallet |-> wallet,
                                  authority_edges |->
                                    ArraySort(group(wallet))]],
                  error |-> NoError]

\* the caller keeps the outcome of its call and calls buildAuthorityGraph
\* once more with the same array; what the first call left in the function's
\* locals is whatever it was
CallAgain ==
  /\ pc \in {"returned", "thrown"}
  /\ previous.calls = 1
  /\ amountCall.pc = "none"
  /\ single.pc = "none"
  /\ previous' = [calls |-> 2, events |-> events, pc |-> pc,
                  results |-> results, error |-> error]
  /\ pc' = "start"
  /\ results' = EmptyObject
  /\ error' = NoError
  /\ UNCHANGED <<argKind, events, i, walletGroups, walletOrder, sortIdx,
                 amountCall, single, other>>

\* the events of wallet w, in their order in evs
Restrict(evs, w) == SelectSeq(evs, LAMBDA event : event.wallet = w)

\* the caller keeps the array and the outcome of its call and calls
\* buildAuthorityGraph again with the events of one of the wallets only
CallRestricted ==
  /\ pc \in {"returned", "thrown"}
  /\ IsArray(argKind)
  /\ previous.calls = 1
  /\ amountCall.pc = "none"
  /\ single.pc = "none"
  /\ \E idx \in 1..Len(events) :
       /\ Truthy(events[idx].wallet)
       /\ events' = Restrict(events, events[idx].wallet)
  /\ previous' = [calls |-> 2, events |-> events, pc |-> pc,
                  results |-> results, error |-> error]
  /\ pc' = "start"
  /\ results' = EmptyObject
  /\ error' = NoError
  /\ UNCHANGED <<argKind, i, walletGroups, walletOrder, sortIdx,
                 amountCall, single, other>>

\* Object.keys(obj), as a set: only its size and its sole member are used
ObjectKeys(obj) == DOMAIN obj

\* line 148: buildAuthorityGraph threw, and so does buildSingleWalletGraph
SinglePropagate ==
  /\ single.pc = "calling"
  /\ pc = "thrown"
  /\ single' = [single EXCEPT !.pc = "thrown", !.error = error]
  /\ UNCHANGED <<frame, amountCall, previous, other>>

\* lines 151-153: if (wallets.length === 0) throw
SingleNoEvents ==
  /\ single.pc = "calling"
  /\ pc = "returned"
  /\ Cardinality(ObjectKeys(results)) = 0
  /\ single' = [single EXCEPT !.pc = "thrown",
                              !.error = [name |-> "NoEvents", field |-> ""]]
  /\ UNCHANGED <<frame, amountCall, previous, other>>

\* lines 155-157: if (wallets.length > 1) throw
SingleMultipleWallets ==
  /\ single.pc = "calling"
  /\ pc = "returned"
  /\ Cardinality(ObjectKeys(results)) > 1
  /\ single' =
       [single EXCEPT !.pc = "thrown",
                      !.error = [name |-> "MultipleWallets", field |-> ""]]
  /\ UNCHANGED <<frame, amountCall, previous, other>>

\* line 159: return graphs[wallets[0]]
SingleReturn ==
  /\ single.pc = "calling"
  /\ pc = "returned"
  /\ Cardinality(ObjectKeys(results)) = 1
  /\ LET wallet == CHOOSE w \in ObjectKeys(results) : TRUE
     IN  single' = [single EXCEPT !.pc = "returned",
                                  !.graph = results[wallet]]
  /\ UNCHANGED <<frame, amountCall, previous, other>>

\* results and the thrown error live outside the function: a resumed call
\* finds what the other call left there
Switch_SharedOutput ==
  /\ other.pc \notin {"none", "returned", "thrown"}
  /\ other' = [argKind |-> argKind, events |-> events, pc |-> pc, i |-> i,
               walletGroups |-> walletGroups, walletOrder |-> walletOrder,
               sortIdx |-> sortIdx, results |-> results, error |-> error,
               changed |-> other.runningChanged,
               runningChanged |-> other.changed]
  /\ argKind' = other.argKind
  /\ events' = other.events
  /\ pc' = other.pc
  /\ i' = other.i
  /\ walletGroups' = other.walletGroups
  /\ walletOrder' = other.walletOrder
  /\ sortIdx' = other.sortIdx
  /\ UNCHANGED <<results, error, amountCall, previous, single>>

\* lines 53-139 hold all their state in locals (walletGroups, the loop
\* positions, results): when the running call is suspended between two steps
\* and the other call resumed, each call finds its own locals again
Switch ==
  /\ other.pc \notin {"none", "returned", "thrown"}
  /\ other' = [argKind |-> argKind, events |-> events, pc |-> pc, i |-> i,
               walletGroups |-> walletGroups, walletOrder |-> walletOrder,
               sortIdx |-> sortIdx, results |-> results, error |-> error,
               changed |-> other.runningChanged,
               runningChanged |-> other.changed]
  /\ argKind' = other.argKind
  /\ events' = other.events
  /\ pc' = other.pc
  /\ i' = other.i
  /\ walletGroups' = other.walletGroups
  /\ walletOrder' = other.walletOrder
  /\ sortIdx' = other.sortIdx
  /\ results' = other.results
  /\ error' = other.error
  /\ UNCHANGED <<amountCall, previous, single>>

\* the caller of the call that returned empties the edge list of the first
\* wallet of its graph; lines 133-135: that list is the call's own
\* walletGroups[wallet]
CallerClearsEdges ==
  /\ other.pc # "none"
  /\ pc = "returned"
  /\ walletOrder # <<>>
  /\ ~other.changed
  /\ ~other.runningChanged
  /\ LET wallet == walletOrder[1]
     IN  /\ results' = [results EXCEPT ![wallet].authority_edges = <<>>]
         /\ walletGroups' = [walletGroups EXCEPT ![wallet] = <<>>]
  /\ other' = [other EXCEPT !.runningChanged = TRUE]
  /\ UNCHANGED <<argKind, events, pc, i, walletOrder, sortIdx, error,
                 amountCall, previous, single>>

\* a caller applies the exported normalizeAmount to a raw amount
NormalizeAmountCall ==
  /\ amountCall.pc = "call"
  /\ amountCall' = [amountCall EXCEPT !.pc = "returned",
                                      !.out = normalizeAmount(amountCall.raw)]
  /\ UNCHANGED <<frame, previous, single, other>>

\* the caller applies normalizeAmount to the string it got back
NormalizeAmountAgain ==
  /\ amountCall.pc = "returned"
  /\ amountCall' =
       [amountCall EXCEPT !.pc = "again",
                          !.again = normalizeAmount(Str(amountCall.out))]
  /\ UNCHANGED <<frame, previous, single, other>>

Next ==
  \/ RejectNonArray
  \/ ReturnEmpty
  \/ EnterLoop
  \/ ThrowMissingField
  \/ ThrowNotAFunction
  \/ PushEdge
  \/ SortGroup
  \/ BuildResults

\* ------------------------------------------------------------------------
\* Inputs
\* ------------------------------------------------------------------------

W_A == <<"0", "x", "A">>

W_B == <<"0", "x", "B">>

W_constructor == <<"c", "o", "n", "s", "t", "r", "u", "c", "t", "o", "r">>

C_TOKEN == <<"0", "x", "T">>

C_NFT == <<"0", "x", "N">>

T_DEX == <<"0", "x", "D">>

A_approval == <<"a", "p", "p", "r", "o", "v", "a", "l">>

TX_a == <<"0", "x", "a">>

TX_B == <<"0", "x", "B">>

TX_b == <<"0", "x", "b">>

TX_A == <<"0", "x", "A">>

\* arrays of 0..MaxEvents events drawn from the set E
ArraysOf(E) == UNION {[1..n -> E] : n \in 0..MaxEvents}

\* no caller of normalizeAmount
NoAmountCall == [pc |-> "none", raw |-> Undefined, out |-> <<>>, again |-> <<>>]

\* a caller that has made its first call and kept no outcome yet
NoPrevious == [calls |-> 1, events |-> <<>>, pc |-> "",
               results |-> EmptyObject, error |-> NoError]

NoGraph == [wallet |-> <<>>, authority_edges |-> <<>>]

\* buildAuthorityGraph is called by the user, not by buildSingleWalletGraph
NoSingle == [pc |-> "none", graph |-> NoGraph, error |-> NoError]

\* a call of buildAuthorityGraph that has not run yet, as a suspended frame
SuspendedCall(kind, arr) ==
  [argKind |-> kind, events |-> arr, pc |-> "start", i |-> 0,
   walletGroups |-> EmptyObject, walletOrder |-> <<>>, sortIdx |-> 0,
   results |-> EmptyObject, error |-> NoError,
   changed |-> FALSE, runningChanged |-> FALSE]

\* there is no second call
NoOther == [SuspendedCall("none", <<>>) EXCEPT !.pc = "none"]

\* the frame of buildAuthorityGraph at the call, for an array argument
AtCall(arr) ==
  /\ argKind = "array"
  /\ events = arr
  /\ pc = "start"
  /\ i = 0
  /\ walletGroups = EmptyObject
  /\ walletOrder = <<>>
  /\ sortIdx = 0
  /\ results = EmptyObject
  /\ error = NoError

\* the frame at the call, for an argument that is not an array
AtCallNonArray ==
  /\ argKind \in {"string", "object", "null", "number", "undefined"}
  /\ events = <<>>
  /\ pc = "start"
  /\ i = 0
  /\ walletGroups = EmptyObject
  /\ walletOrder = <<>>
  /\ sortIdx = 0
  /\ results = EmptyObject
  /\ error = NoError

\* a direct call of buildAuthorityGraph and nothing else
Direct ==
  /\ amountCall = NoAmountCall
  /\ previous = NoPrevious
  /\ single = NoSingle
  /\ other = NoOther

\* the state at a direct call, for an array argument
CallWith(arr) == AtCall(arr) /\ Direct

\* the state at a direct call, for an argument that is not an array
CallWithNonArray == AtCallNonArray /\ Direct

Event(w, c, ty, te, am, b, ts, tx, li) ==
  [wallet |-> w, contract |-> c, authority_type |-> ty, target_entity |-> te,
   amount |-> am, block |-> b, timestamp |-> ts, tx_hash |-> tx,
   log_index |-> li]

\* an event of wallet 0xA with the given sort keys, all else fixed
SortEvent(b, tx, li, ts) ==
  Event(Str(W_A), Str(C_TOKEN), Str(A_approval), Str(T_DEX), Null,
        b, ts, tx, li)

\* inputs every specification includes, so that each way out of the call is
\* taken: a wallet naming an inherited property, and an event with no wallet
OddArrays ==
  {<<Event(Str(W_constructor), Str(C_TOKEN), Str(A_approval), Str(T_DEX),
           Null, Num(1), Num(1), Undefined, Undefined)>>,
   <<Event(Undefined, Str(C_TOKEN), Str(A_approval), Str(T_DEX),
           Null, Num(1), Num(1), Undefined, Undefined)>>}

InitOdd ==
  \/ \E arr \in OddArrays : CallWith(arr)
  \/ CallWithNonArray

\* SpecSort: events of one wallet in one block, with every combination of
\* tx_hash (absent, two values), log_index (absent, two values) and two
\* timestamps
SortEvents ==
  {SortEvent(Num(1), tx, li, ts) :
     tx \in {Undefined, Str(TX_a), Str(TX_B)},
     li \in {Undefined, Num(0), Num(1)},
     ts \in {Num(1), Num(2)}}

InitSort ==
  \/ \E arr \in ArraysOf(SortEvents) : CallWith(arr)
  \/ InitOdd

SpecSort == InitSort /\ [][Next]_vars

\* SpecBlock: events of one wallet in two blocks (block 0 among them); the
\* other keys range over profiles with and without tx_hash and log_index,
\* three of which the comparator ranks in a cycle
BlockEvents ==
  {SortEvent(b, k[1], k[2], k[3]) :
     b \in {Num(0), Num(1)},
     k \in {<<Undefined, Num(1), Num(1)>>,
            <<Str(TX_B), Num(0), Num(1)>>,
            <<Str(TX_a), Undefined, Num(2)>>,
            <<Undefined, Undefined, Num(1)>>}}

InitBlock ==
  \/ \E arr \in ArraysOf(BlockEvents) : CallWith(arr)
  \/ InitOdd

SpecBlock == InitBlock /\ [][Next]_vars

\* SpecTx: events of one wallet in one block; tx_hash ranges over four
\* values that differ in case, log_index is 0 or absent
TxEvents ==
  {SortEvent(Num(1), tx, li, Num(1)) :
     tx \in {Str(TX_a), Str(TX_B), Str(TX_b), Str(TX_A)},
     li \in {Undefined, Num(0)}}

InitTx ==
  \/ \E arr \in ArraysOf(TxEvents) : CallWith(arr)
  \/ InitOdd

SpecTx == InitTx /\ [][Next]_vars

\* SpecGroup: valid events of two wallets, two contracts and two blocks
\* (block 0 among them)
GroupEvents ==
  {Event(Str(w), Str(c), Str(A_approval), Str(T_DEX), Null, b, Num(1),
         Undefined, Undefined) :
     w \in {W_A, W_B}, c \in {C_TOKEN, C_NFT}, b \in {Num(0), Num(1)}}

InitGroup ==
  \/ \E arr \in ArraysOf(GroupEvents) : CallWith(arr)
  \/ InitOdd

SpecGroup == InitGroup /\ [][Next]_vars

\* SpecValidate: valid events (one with block and timestamp 0, one whose
\* wallet names an inherited property) and events with required fields
\* missing, null or empty
ValidEvent(w, b, ts) ==
  Event(Str(w), Str(C_TOKEN), Str(A_approval), Str(T_DEX), Null, b, ts,
        Undefined, Undefined)

ValidateEvents ==
  {ValidEvent(W_A, Num(1), Num(1)),
   ValidEvent(W_B, Num(0), Num(0)),
   ValidEvent(W_constructor, Num(1), Num(1)),
   [ValidEvent(W_A, Num(1), Num(1)) EXCEPT !.wallet = Undefined],
   [ValidEvent(W_A, Num(1), Num(1)) EXCEPT !.wallet = Str(<<>>)],
   [ValidEvent(W_A, Num(1), Num(1)) EXCEPT !.contract = Null],
   [ValidEvent(W_A, Num(1), Num(1)) EXCEPT !.authority_type = Undefined],
   [ValidEvent(W_A, Num(1), Num(1)) EXCEPT !.target_entity = Str(<<>>)],
   [ValidEvent(W_A, Num(1), Num(1)) EXCEPT !.block = Null],
   [ValidEvent(W_A, Num(1), Num(1)) EXCEPT !.timestamp = Undefined],
   [ValidEvent(W_A, Num(1), Num(1)) EXCEPT !.wallet = Undefined,
                                          !.block = Undefined],
   Event(Str(W_A), Undefined, Undefined, Undefined, Undefined, Undefined,
         Undefined, Undefined, Undefined)}

InitValidate ==
  \/ \E arr \in ArraysOf(ValidateEvents) : CallWith(arr)
  \/ InitOdd

SpecValidate == InitValidate /\ [][Next]_vars

\* ------------------------------------------------------------------------
\* Raw amounts
\* ------------------------------------------------------------------------

MaxAmountLen == 3

MaxAmountNumber == 11

AmountChars == {"0", "1", "a", "A"}

\* every string of up to MaxAmountLen characters: "", "0", "00", "1a", ...
ShortAmounts == UNION {[1..n -> AmountChars] : n \in 0..MaxAmountLen}

S_max_uint == <<"m", "a", "x", "_", "u", "i", "n", "t">>

S_Max_Uint == <<"M", "a", "x", "_", "U", "i", "n", "t">>

S_Unlimited == <<"U", "n", "l", "i", "m", "i", "t", "e", "d">>

\* 2^256, a decimal string one above the unlimited sentinel
TwoPow256Digits == SubSeq(MaxUint256Digits, 1, 77) \o <<"6">>

\* the special spellings, near misses of them, and long decimal strings
LongAmounts ==
  {S_MAX_UINT, S_max_uint, S_Max_Uint, S_UNLIMITED, S_unlimited, S_Unlimited,
   S_MAX_UINT \o <<"1">>, <<"x">> \o S_unlimited, SubSeq(S_UNLIMITED, 1, 8),
   MaxUint256Digits, <<"0", "x">> \o MaxUint256Digits \o <<"0">>,
   SubSeq(MaxUint256Digits, 1, 77), TwoPow256Digits}

RawAmounts ==
  {Undefined, Null}
    \cup {Num(n) : n \in 0..MaxAmountNumber}
    \cup {Str(s) : s \in ShortAmounts \cup LongAmounts}

\* a caller about to apply normalizeAmount to raw; buildAuthorityGraph is
\* not called
AmountCallWith(raw) ==
  /\ argKind = "none"
  /\ events = <<>>
  /\ pc = "idle"
  /\ i = 0
  /\ walletGroups = EmptyObject
  /\ walletOrder = <<>>
  /\ sortIdx = 0
  /\ results = EmptyObject
  /\ error = NoError
  /\ amountCall = [pc |-> "call", raw |-> raw, out |-> <<>>, again |-> <<>>]
  /\ previous = NoPrevious
  /\ single = NoSingle
  /\ other = NoOther

A_nft_approval ==
  <<"n", "f", "t", "_", "a", "p", "p", "r", "o", "v", "a", "l">>

\* events of one wallet that differ in amount and authority_type only; the
\* first has no amount key
AmountEvents ==
  {Event(Str(W_A), Str(C_TOKEN), Str(ty), Str(T_DEX), am, Num(1), Num(1),
         Undefined, Undefined) :
     ty \in {A_approval, A_nft_approval},
     am \in {Undefined, Str(S_max_uint), Num(0), Str(<<"1", "a">>)}}

InitAmount ==
  \/ \E raw \in RawAmounts : AmountCallWith(raw)
  \/ \E arr \in ArraysOf(AmountEvents) : CallWith(arr)
  \/ InitOdd

NextAmount ==
  \/ Next
  \/ NormalizeAmountCall
  \/ NormalizeAmountAgain

SpecAmount == InitAmount /\ [][NextAmount]_vars

\* ------------------------------------------------------------------------
\* Repeated calls
\* ------------------------------------------------------------------------

\* two wallets, edges the sort has to reorder, an event with no contract and
\* a wallet naming an inherited property
RepeatEvents ==
  {SortEvent(Num(1), Str(TX_a), Undefined, Num(2)),
   SortEvent(Num(1), Str(TX_B), Num(0), Num(1)),
   SortEvent(Num(1), Undefined, Num(1), Num(1)),
   SortEvent(Num(0), Undefined, Undefined, Num(1)),
   [SortEvent(Num(1), Undefined, Num(1), Num(1)) EXCEPT !.wallet = Str(W_B)],
   [SortEvent(Num(0), Undefined, Undefined, Num(1))
      EXCEPT !.wallet = Str(W_B)],
   [SortEvent(Num(1), Undefined, Undefined, Num(1)) EXCEPT !.contract = Null],
   [SortEvent(Num(1), Undefined, Undefined, Num(1))
      EXCEPT !.wallet = Str(W_constructor)]}

InitRepeat ==
  \/ \E arr \in ArraysOf(RepeatEvents) : CallWith(arr)
  \/ InitOdd

NextRepeat ==
  \/ Next
  \/ CallAgain

SpecRepeat == InitRepeat /\ [][NextRepeat]_vars

\* ------------------------------------------------------------------------
\* Calls of buildSingleWalletGraph
\* ------------------------------------------------------------------------

\* buildSingleWalletGraph is entered and calls buildAuthorityGraph (line 148)
ViaSingle ==
  /\ amountCall = NoAmountCall
  /\ previous = NoPrevious
  /\ single = [pc |-> "calling", graph |-> NoGraph, error |-> NoError]
  /\ other = NoOther

InitSingle ==
  \/ \E arr \in ArraysOf(RepeatEvents) \cup OddArrays :
       AtCall(arr) /\ ViaSingle
  \/ AtCallNonArray /\ ViaSingle

NextSingle ==
  \/ Next
  \/ SinglePropagate
  \/ SingleNoEvents
  \/ SingleMultipleWallets
  \/ SingleReturn

SpecSingle == InitSingle /\ [][NextSingle]_vars

\* ------------------------------------------------------------------------
\* Optional fields
\* ------------------------------------------------------------------------

\* events of one wallet, block and timestamp that differ in tx_hash (absent,
\* null, empty, given) and log_index (absent, null, 0, 1)
OptionalEvents ==
  {SortEvent(Num(1), tl[1], tl[2], Num(1)) :
     tl \in {<<Undefined, Undefined>>, <<Str(<<>>), Null>>,
             <<Str(TX_a), Undefined>>, <<Str(TX_a), Num(0)>>,
             <<Str(TX_B), Num(1)>>, <<Undefined, Num(0)>>,
             <<Undefined, Num(1)>>, <<Null, Num(0)>>}}

InitOptional ==
  \/ \E arr \in ArraysOf(OptionalEvents) : CallWith(arr)
  \/ InitOdd

SpecOptional == InitOptional /\ [][Next]_vars

\* ------------------------------------------------------------------------
\* A call on the whole array, then on one wallet's events
\* ------------------------------------------------------------------------

InitRestrict ==
  \/ \E arr \in ArraysOf(RepeatEvents) : CallWith(arr)
  \/ InitOdd

NextRestrict ==
  \/ Next
  \/ CallRestricted

SpecRestrict == InitRestrict /\ [][NextRestrict]_vars

\* ------------------------------------------------------------------------
\* Two calls whose steps interleave
\* ------------------------------------------------------------------------

MaxBatch == 2

\* two wallets, and two events of one wallet that the sort exchanges
BatchEvents ==
  {ValidEvent(W_A, Num(1), Num(1)),
   ValidEvent(W_A, Num(0), Num(1)),
   ValidEvent(W_B, Num(1), Num(1))}

Batches == UNION {[1..n -> BatchEvents] : n \in 0..MaxBatch} \cup OddArrays

InitInterleave ==
  \/ \E arr \in Batches, arr2 \in Batches :
       /\ AtCall(arr)
       /\ amountCall = NoAmountCall
       /\ previous = NoPrevious
       /\ single = NoSingle
       /\ other = SuspendedCall("array", arr2)
  \/ InitOdd

NextInterleave ==
  \/ Next
  \/ Switch
  \/ CallerClearsEdges

SpecInterleave == InitInterleave /\ [][NextInterleave]_vars

\* ------------------------------------------------------------------------
\* Sort claims
\* ------------------------------------------------------------------------

Returned == pc = "returned"

EdgesOf(w) == results[w].authority_edges

\* the composite key as a tie-break chain: block; tx_hash when both edges
\* carry one; log_index when both carry one; timestamp.  Each key is
\* consulted only on a tie of the keys before it.
CompositeCompare(a, b) ==
  LET txKey == IF Truthy(a.tx_hash) /\ Truthy(b.tx_hash)
               THEN localeCompare(a.tx_hash.s, b.tx_hash.s) ELSE 0
      liKey == IF a.log_index # Undefined /\ b.log_index # Undefined
               THEN a.log_index.n - b.log_index.n ELSE 0
  IN  IF a.block # b.block THEN a.block - b.block
      ELSE IF txKey # 0 THEN txKey
      ELSE IF liKey # 0 THEN liKey
      ELSE a.timestamp - b.timestamp

\* C1: in every returned graph, no edge of a wallet's list is ranked by the
\* composite key strictly before an edge that precedes it in the list.
C1_SortCorrectness ==
  Returned =>
    \A w \in DOMAIN results :
      \A p, q \in 1..Len(EdgesOf(w)) :
        p < q => CompositeCompare(EdgesOf(w)[q], EdgesOf(w)[p]) >= 0

\* C2: in every returned graph the block values of a wallet's edge list are
\* non-decreasing along the list.
C2_BlockOrder ==
  Returned =>
    \A w \in DOMAIN results :
      \A p, q \in 1..Len(EdgesOf(w)) :
        p < q => EdgesOf(w)[p].block <= EdgesOf(w)[q].block

C2_Witness ==
  /\ Returned
  /\ \E w \in DOMAIN results :
       /\ Len(EdgesOf(w)) = 3
       /\ EdgesOf(w)[1].block < EdgesOf(w)[3].block
       /\ EdgesOf(w)[1].src = 3
       /\ EdgesOf(w)[2].tx_hash = Undefined
       /\ EdgesOf(w)[3].tx_hash # Undefined

\* C4: in every returned graph, of two edges of one wallet with the same
\* block, the same non-empty tx_hash and different defined log_index values,
\* the one with the smaller log_index comes first.
C4_LogIndexOrder ==
  Returned =>
    \A w \in DOMAIN results :
      \A p, q \in 1..Len(EdgesOf(w)) :
        LET a == EdgesOf(w)[p]
            b == EdgesOf(w)[q]
        IN  (/\ a.block = b.block
             /\ Truthy(a.tx_hash) /\ a.tx_hash = b.tx_hash
             /\ a.log_index # Undefined /\ b.log_index # Undefined
             /\ a.log_index.n < b.log_index.n) => p < q

\* C5: in every returned graph, of two edges of one wallet with the same
\* block, the same tx_hash and the same defined log_index but different
\* timestamps, the one with the smaller timestamp comes first.
C5_TimestampTieBreak ==
  Returned =>
    \A w \in DOMAIN results :
      \A p, q \in 1..Len(EdgesOf(w)) :
        LET a == EdgesOf(w)[p]
            b == EdgesOf(w)[q]
        IN  (/\ a.block = b.block
             /\ a.tx_hash = b.tx_hash
             /\ a.log_index # Undefined /\ a.log_index = b.log_index
             /\ a.timestamp < b.timestamp) => p < q

\* two edges are equal on all four sort keys
SameKeys(a, b) ==
  /\ a.block = b.block
  /\ a.tx_hash = b.tx_hash
  /\ a.log_index = b.log_index
  /\ a.timestamp = b.timestamp

\* C6: in every returned graph, two edges of one wallet that are equal on
\* all four sort keys are in the order of the events they were built from.
C6_Stability ==
  Returned =>
    \A w \in DOMAIN results :
      \A p, q \in 1..Len(EdgesOf(w)) :
        (SameKeys(EdgesOf(w)[p], EdgesOf(w)[q])
           /\ EdgesOf(w)[p].src < EdgesOf(w)[q].src) => p < q

\* the positions of the events of wallet w in the input
EventsOf(w) == {idx \in 1..Len(events) : events[idx].wallet.s = w}

\* the events of wallet w share one block and carry pairwise distinct
\* non-empty tx_hash values
DistinctTxInOneBlock(w) ==
  \A x, y \in EventsOf(w) :
    /\ events[x].block = events[y].block
    /\ Truthy(events[x].tx_hash)
    /\ x # y => events[x].tx_hash # events[y].tx_hash

EdgeSlots ==
  {s \in (DOMAIN results) \X (1..MaxEvents) : s[2] <= Len(EdgesOf(s[1]))}

EventTuple(e) ==
  <<e.wallet.s, e.contract, e.target_entity, e.authority_type, e.block>>

EdgeTuple(s) ==
  LET edge == EdgesOf(s[1])[s[2]]
  IN  <<s[1], edge.contract, edge.target_entity, edge.type, Num(edge.block)>>

\* C7: in every returned graph each (wallet, contract, target_entity,
\* authority_type, block) tuple occurs among the edges as many times as
\* among the input events, and there are as many edges as events.
C7_Lossless ==
  Returned =>
    LET tuples == {EventTuple(events[idx]) : idx \in 1..Len(events)}
                    \cup {EdgeTuple(s) : s \in EdgeSlots}
    IN  /\ \A t \in tuples :
             Cardinality({idx \in 1..Len(events) : EventTuple(events[idx]) = t})
               = Cardinality({s \in EdgeSlots : EdgeTuple(s) = t})
        /\ Cardinality(EdgeSlots) = Len(events)

C7_Witness ==
  /\ Returned
  /\ Len(events) = 3
  /\ Cardinality(DOMAIN results) = 2
  /\ EventTuple(events[1]) = EventTuple(events[3])
  /\ events[2].contract # events[1].contract

\* C8: in every returned graph the keys are exactly the wallets of the
\* input, every edge under key w was built from an event of wallet w, and
\* every event has its edge in exactly one place.
C8_Partition ==
  Returned =>
    /\ DOMAIN results = {events[idx].wallet.s : idx \in 1..Len(events)}
    /\ \A s \in EdgeSlots :
         /\ EdgesOf(s[1])[s[2]].src \in 1..Len(events)
         /\ events[EdgesOf(s[1])[s[2]].src].wallet.s = s[1]
    /\ \A idx \in 1..Len(events) :
         Cardinality({s \in EdgeSlots : EdgesOf(s[1])[s[2]].src = idx}) = 1

C8_Witness ==
  /\ Returned
  /\ Len(events) = 3
  /\ events[1].wallet = Str(W_A)
  /\ events[2].wallet = Str(W_B)
  /\ events[3].wallet = Str(W_A)
  /\ Len(EdgesOf(W_A)) = 2
  /\ Len(EdgesOf(W_B)) = 1

\* ------------------------------------------------------------------------
\* Validation claims
\* ------------------------------------------------------------------------

SomeEventMalformed ==
  \E idx \in 1..Len(events) : missingField(events[idx]) # ""

\* C9: a call on an array holding a malformed event ends with the
\* missing-field error and returns no graph, and never holds a returned
\* graph at any point.
C9_AllOrNothing ==
  (IsArray(argKind) /\ SomeEventMalformed) =>
    /\ results = EmptyObject
    /\ pc # "returned"
    /\ pc = "thrown" => error.name = "MissingField"

\* C10: a call on a value that is not an array ends with the invalid-input
\* error, before the loop over the events is entered and with no output.
C10_NonArrayRejected ==
  argKind # "array" =>
    /\ pc \in {"start", "thrown"}
    /\ pc = "thrown" => error = [name |-> "InvalidInput", field |-> ""]
    /\ i = 0
    /\ walletOrder = <<>>
    /\ results = EmptyObject

C10_Witness ==
  /\ argKind = "string"
  /\ pc = "thrown"
  /\ error.name = "InvalidInput"

\* C11: a call on the empty array ends by returning the empty mapping: it
\* never throws, never enters the loop and creates no wallet group.
C11_EmptyArrayEmptyMapping ==
  (IsArray(argKind) /\ events = <<>>) =>
    /\ pc \in {"start", "returned"}
    /\ error = NoError
    /\ results = EmptyObject
    /\ DOMAIN walletGroups = {}
    /\ i = 0

C11_Witness ==
  /\ IsArray(argKind)
  /\ events = <<>>
  /\ pc = "returned"
  /\ DOMAIN results = {}

\* the six required fields hold values: the four string fields a non-empty
\* string, block and timestamp a number (zero included)
RequiredPresent(event) ==
  /\ \A f \in {"wallet", "contract", "authority_type", "target_entity"} :
       event[f].k = "string" /\ event[f].s # <<>>
  /\ event.block.k = "number"
  /\ event.timestamp.k = "number"

\* C12: the validation rejects an event for its block or timestamp only when
\* that field is null or missing, and never reports a field missing on an
\* event whose required fields are all present, block 0 and timestamp 0
\* included; a returned graph holds no event with a null or missing block or
\* timestamp, and every edge carries its event's block and timestamp, 0 as 0.
C12_ZeroBlockAndTimestampValid ==
  /\ (pc = "thrown" /\ error.name = "MissingField") =>
       /\ ~RequiredPresent(events[i])
       /\ error.field = "block" => IsNullish(events[i].block)
       /\ error.field = "timestamp" => IsNullish(events[i].timestamp)
  /\ Returned =>
       /\ \A idx \in 1..Len(events) :
            ~IsNullish(events[idx].block) /\ ~IsNullish(events[idx].timestamp)
       /\ \A s \in EdgeSlots :
            LET edge == EdgesOf(s[1])[s[2]]
            IN  /\ edge.block = events[edge.src].block.n
                /\ edge.timestamp = events[edge.src].timestamp.n

C12_Witness ==
  /\ Returned
  /\ Len(events) = 2
  /\ events[1].block = Num(1)
  /\ events[2].block = Num(0)
  /\ events[2].timestamp = Num(0)
  /\ events[2].wallet = Str(W_B)
  /\ Len(EdgesOf(W_B)) = 1
  /\ EdgesOf(W_B)[1].block = 0
  /\ EdgesOf(W_B)[1].timestamp = 0

\* ------------------------------------------------------------------------
\* Amount claims
\* ------------------------------------------------------------------------

LowerChar(c) == IF c \in Range(Upper) THEN Lower[IndexIn(Upper, c)] ELSE c

\* s and t are the same string up to the case of their letters
EqualsIgnoringCase(s, t) ==
  /\ Len(s) = Len(t)
  /\ \A k \in 1..Len(s) : LowerChar(s[k]) = LowerChar(t[k])

\* the decimal digits of 2^256 - 1 occur in s as a substring
HoldsMaxUint256(s) ==
  \E k \in 0..(Len(s) - Len(MaxUint256Digits)) :
    SubSeq(s, k + 1, k + Len(MaxUint256Digits)) = MaxUint256Digits

\* the raw amounts the contract calls unlimited
UnlimitedForm(raw) ==
  \/ raw.k \in {"null", "undefined"}
  \/ /\ raw.k \in {"string", "number"}
     /\ LET str == IF raw.k = "string" THEN raw.s ELSE DecimalString(raw.n)
        IN  \/ EqualsIgnoringCase(str, S_MAX_UINT)
            \/ EqualsIgnoringCase(str, S_UNLIMITED)
            \/ HoldsMaxUint256(str)

IsZero(raw) == raw = Str(<<"0">>) \/ raw = Num(0)

AmountReturned == amountCall.pc \in {"returned", "again"}

KeepsStringForm(raw, out) ==
  IF raw.k = "string" THEN out = raw.s
  ELSE /\ out # <<>>
       /\ \A k \in 1..Len(out) : out[k] \in Range(Digits)
       /\ Len(out) > 1 => out[1] # "0"
       /\ ParseDecimal(out) = raw.n

\* C14: for a raw amount that is not an unlimited form and not zero,
\* normalizeAmount returns the string form of the value unchanged: a string
\* character for character, letter case and every digit included, a number
\* as its decimal numeral; the same holds for the amount of an edge.
C14_OrdinaryAmountPreserved ==
  /\ (AmountReturned /\ ~UnlimitedForm(amountCall.raw)
        /\ ~IsZero(amountCall.raw)) =>
       KeepsStringForm(amountCall.raw, amountCall.out)
  /\ Returned =>
       \A s \in EdgeSlots :
         LET edge == EdgesOf(s[1])[s[2]]
             raw == events[edge.src].amount
         IN  (~UnlimitedForm(raw) /\ ~IsZero(raw)) =>
               KeepsStringForm(raw, edge.amount)

C14_Witness ==
  /\ amountCall.pc = "returned"
  /\ amountCall.raw = Str(TwoPow256Digits)
  /\ amountCall.out = TwoPow256Digits

\* C15: applying normalizeAmount to its own result gives that result again.
C15_Idempotent ==
  amountCall.pc = "again" => amountCall.again = amountCall.out

C15_Witness ==
  /\ amountCall.pc = "again"
  /\ amountCall.raw = Null
  /\ amountCall.out = S_unlimited
  /\ amountCall.again = S_unlimited

\* C16: every edge of every wallet of a returned graph has
\* revocation_possible equal to "UNKNOWN", whatever the amount and the
\* authority_type of its event.
C16_RevocationUnknown ==
  Returned =>
    \A w \in DOMAIN results :
      \A k \in 1..Len(EdgesOf(w)) :
        EdgesOf(w)[k].revocation_possible = <<"U", "N", "K", "N", "O", "W", "N">>

C16_Witness ==
  /\ Returned
  /\ Len(events) = 3
  /\ events[1].amount = Undefined
  /\ events[2].amount = Num(0)
  /\ events[3].amount = Str(<<"1", "a">>)
  /\ events[1].authority_type = Str(A_approval)
  /\ events[2].authority_type = Str(A_nft_approval)
  /\ Len(EdgesOf(W_A)) = 3
  /\ EdgesOf(W_A)[1].amount = S_unlimited
  /\ \A k \in 1..3 : EdgesOf(W_A)[k].revocation_possible = S_UNKNOWN

\* ------------------------------------------------------------------------
\* Claims about calls and their callers
\* ------------------------------------------------------------------------

SecondCallEnded == previous.calls = 2 /\ pc \in {"returned", "thrown"}

\* C17: a second call of buildAuthorityGraph on the same array ends as the
\* first did: both throw the same error, or both return mappings with the
\* same wallet keys and, under each key, the same edges in the same order.
C17_Deterministic ==
  SecondCallEnded =>
    /\ pc = previous.pc
    /\ error = previous.error
    /\ DOMAIN results = DOMAIN previous.results
    /\ \A w \in DOMAIN results : results[w] = previous.results[w]

C17_Witness ==
  /\ SecondCallEnded
  /\ pc = "returned"
  /\ previous.pc = "returned"
  /\ DOMAIN results = {W_A, W_B}
  /\ Len(EdgesOf(W_A)) = 3
  /\ EdgesOf(W_A)[1].src # 1
  /\ results = previous.results

\* C18: no step of buildAuthorityGraph, up to its return or its throw and
\* through a repeated call, changes the caller's events array: its length,
\* the order of its elements, and the fields and values of every event stay
\* as they were passed; the sort reorders edge lists only.
C18_NoMutation == [][events' = events]_vars

C18_Witness ==
  /\ pc = "returned"
  /\ previous.calls = 1
  /\ Len(events) = 3
  /\ events[1] = SortEvent(Num(1), Undefined, Num(1), Num(1))
  /\ events[2] = SortEvent(Num(1), Str(TX_a), Undefined, Num(2))
  /\ events[3] = SortEvent(Num(0), Undefined, Undefined, Num(1))
  /\ EdgesOf(W_A)[1].src = 3
  /\ EdgesOf(W_A)[1].amount = S_unlimited

SingleEnded == single.pc \in {"returned", "thrown"}

\* the wallet values of the events passed
WalletsOf(evs) == {evs[idx].wallet : idx \in 1..Len(evs)}

\* every event of the array passes the validation of required fields
PassesValidation(evs) == \A idx \in 1..Len(evs) : RequiredPresent(evs[idx])

\* C19: on a non-empty array whose events all pass validation and all have
\* the wallet w, buildSingleWalletGraph returns, and what it returns is the
\* entry of w in the mapping buildAuthorityGraph returned: the wallet field
\* is w and the edges are that entry's sorted sequence, one per event.
C19_SingleWalletSuccess ==
  (SingleEnded /\ IsArray(argKind) /\ events # <<>>
     /\ PassesValidation(events)
     /\ Cardinality(WalletsOf(events)) = 1) =>
    /\ single.pc = "returned"
    /\ single.error = NoError
    /\ \E w \in DOMAIN results :
         /\ WalletsOf(events) = {Str(w)}
         /\ single.graph = results[w]
         /\ single.graph.wallet = w
         /\ Len(single.graph.authority_edges) = Len(events)

\* C20: buildSingleWalletGraph ends with the no-events error on the empty
\* array and with the multiple-wallets error on an array whose events all
\* pass validation and name two or more wallets; in both cases it returns
\* no graph.
C20_SingleWalletMisuse ==
  SingleEnded =>
    /\ (IsArray(argKind) /\ events = <<>>) =>
         /\ single.pc = "thrown"
         /\ single.error = [name |-> "NoEvents", field |-> ""]
         /\ single.graph = NoGraph
    /\ (IsArray(argKind) /\ PassesValidation(events)
          /\ Cardinality(WalletsOf(events)) >= 2) =>
         /\ single.pc = "thrown"
         /\ single.error = [name |-> "MultipleWallets", field |-> ""]
         /\ single.graph = NoGraph

\* ------------------------------------------------------------------------
\* Claims about the comparator, the optional fields and the errors
\* ------------------------------------------------------------------------

\* a is ranked not after b by the comparator the sort is given
NotAfter(a, b) == compareEdges(a, b) <= 0

\* C22: among the edges of one wallet of a returned graph the comparator is
\* transitive: if a is ranked not after b and b not after c, then a is
\* ranked not after c, whichever of tx_hash and log_index the edges carry.
C22_Transitive ==
  Returned =>
    \A w \in DOMAIN results :
      \A x, y, z \in 1..Len(EdgesOf(w)) :
        LET a == EdgesOf(w)[x]
            b == EdgesOf(w)[y]
            c == EdgesOf(w)[z]
        IN  (NotAfter(a, b) /\ NotAfter(b, c)) => NotAfter(a, c)

\* every edge of wallet w has the same block, no tx_hash and a log_index
OnlyLogIndexDecides(w) ==
  \A k \in 1..Len(EdgesOf(w)) :
    /\ EdgesOf(w)[k].block = EdgesOf(w)[1].block
    /\ EdgesOf(w)[k].tx_hash = Undefined
    /\ EdgesOf(w)[k].log_index # Undefined

\* C23: an edge carries a tx_hash exactly when its event has a non-empty
\* tx_hash string, and then the same value; it carries a log_index exactly
\* when the event's log_index is neither null nor absent, and then the same
\* number, 0 included; where block ties, no edge has a tx_hash and all have
\* a log_index, the edges are in log_index order, 0 before 1.
C23_OptionalFieldsCarried ==
  Returned =>
    /\ \A s \in EdgeSlots :
         LET edge == EdgesOf(s[1])[s[2]]
             event == events[edge.src]
         IN  /\ edge.tx_hash # Undefined
                  <=> (event.tx_hash.k = "string" /\ event.tx_hash.s # <<>>)
             /\ edge.tx_hash # Undefined => edge.tx_hash = event.tx_hash
             /\ edge.log_index # Undefined
                  <=> event.log_index.k \notin {"null", "undefined"}
             /\ edge.log_index # Undefined => edge.log_index = event.log_index
    /\ \A w \in DOMAIN results :
         OnlyLogIndexDecides(w) =>
           \A k \in 1..(Len(EdgesOf(w)) - 1) :
             EdgesOf(w)[k].log_index.n <= EdgesOf(w)[k + 1].log_index.n

C23_Witness ==
  /\ Returned
  /\ Len(events) = 3
  /\ events[1].log_index = Num(1) /\ events[1].tx_hash = Undefined
  /\ events[2].log_index = Num(0) /\ events[2].tx_hash = Null
  /\ events[3].log_index = Num(0) /\ events[3].tx_hash = Undefined
  /\ EdgesOf(W_A)[1].src = 2
  /\ EdgesOf(W_A)[1].log_index = Num(0)
  /\ EdgesOf(W_A)[1].tx_hash = Undefined
  /\ EdgesOf(W_A)[3].src = 1

\* the order in which the contract lists the required fields
FieldOrder ==
  <<"wallet", "contract", "authority_type", "target_entity", "block",
    "timestamp">>

\* the required field f of the event is violated: a string field is not a
\* non-empty string, block or timestamp is null or absent
FieldViolated(event, f) ==
  IF f \in {"block", "timestamp"}
  THEN event[f].k \in {"null", "undefined"}
  ELSE ~(event[f].k = "string" /\ event[f].s # <<>>)

\* C24: when the call ends with the missing-field error, the event it
\* stopped at is the first malformed event of the array, and the field the
\* error names is the first violated field of that event in the order
\* wallet, contract, authority_type, target_entity, block, timestamp.
C24_FirstViolatedField ==
  (pc = "thrown" /\ error.name = "MissingField") =>
    /\ \A j \in 1..(i - 1) : RequiredPresent(events[j])
    /\ ~RequiredPresent(events[i])
    /\ \E k \in 1..Len(FieldOrder) :
         /\ error.field = FieldOrder[k]
         /\ FieldViolated(events[i], FieldOrder[k])
         /\ \A m \in 1..(k - 1) : ~FieldViolated(events[i], FieldOrder[m])

C24_Witness ==
  /\ pc = "thrown"
  /\ Len(events) = 3
  /\ RequiredPresent(events[1])
  /\ events[2].wallet = Undefined
  /\ events[2].block = Undefined
  /\ events[3].contract = Null
  /\ i = 2
  /\ error = [name |-> "MissingField", field |-> "wallet"]

\* C25: a call fails only with the invalid-input error or the missing-field
\* error, and never fails on an array whose events all have the six
\* required fields, whatever their wallet strings are.
C25_ErrorTaxonomyComplete ==
  pc = "thrown" =>
    /\ error.name \in {"InvalidInput", "MissingField"}
    /\ ~IsArray(argKind) \/ ~PassesValidation(events)

\* C27: buildSingleWalletGraph ends with the invalid-input error on an
\* argument that is not an array, and with the missing-field error on an
\* array that names several wallets and holds a malformed event; it ends
\* with the no-events or the multiple-wallets error only when
\* buildAuthorityGraph has returned.
C27_ErrorPrecedence ==
  SingleEnded =>
    /\ ~IsArray(argKind) =>
         /\ single.pc = "thrown"
         /\ single.error = [name |-> "InvalidInput", field |-> ""]
    /\ (IsArray(argKind) /\ Cardinality(WalletsOf(events)) >= 2
          /\ ~PassesValidation(events)) =>
         /\ single.pc = "thrown"
         /\ single.error.name = "MissingField"
    /\ single.error.name \in {"NoEvents", "MultipleWallets"} =>
         /\ pc = "returned"
         /\ error = NoError

\* ------------------------------------------------------------------------
\* Claims about several calls
\* ------------------------------------------------------------------------

\* the edge list with every edge's event position replaced by the position
\* that event has among the events of the list
Renumbered(edges) ==
  [k \in 1..Len(edges) |->
     [edges[k] EXCEPT
        !.src = Cardinality({j \in 1..Len(edges) :
                               edges[j].src <= edges[k].src})]]

\* C26: after a call on an array E whose events all pass validation, a call
\* on the events of one wallet w of E alone ends as the call on E did, and
\* when they return, it returns for w the graph the call on E returned for
\* w: the same edges in the same order.
C26_WalletsIndependent ==
  (previous.calls = 2 /\ pc \in {"returned", "thrown"}
     /\ PassesValidation(previous.events)) =>
    LET w == events[1].wallet.s
    IN  /\ pc = previous.pc
        /\ error = previous.error
        /\ pc = "returned" =>
             /\ w \in DOMAIN previous.results
             /\ DOMAIN results = {w}
             /\ results[w].wallet = previous.results[w].wallet
             /\ results[w].authority_edges =
                  Renumbered(previous.results[w].authority_edges)

\* the outcome of the running call, and of the suspended one
Outcome == [pc |-> pc, results |-> results, error |-> error]

OtherOutcome ==
  [pc |-> other.pc, results |-> other.results, error |-> other.error]

\* C21: when the steps of two calls of buildAuthorityGraph interleave, each
\* call ends with the outcome it has when it runs alone on its own argument,
\* and a later change the caller makes to one call's graph leaves the other
\* call's graph as it was
C21_CallsDoNotInterfere ==
  other.pc # "none" =>
    /\ (pc \in {"returned", "thrown"} /\ ~other.runningChanged) =>
         Outcome = RunAlone(argKind, events)
    /\ (other.pc \in {"returned", "thrown"} /\ ~other.changed) =>
         OtherOutcome = RunAlone(other.argKind, other.events)

\* both calls returned a graph with the same wallet after their steps
\* interleaved, the caller emptied that wallet's edges in one graph, and the
\* other graph still holds its sorted edges
C21_Witness ==
  /\ other.pc = "returned"
  /\ pc = "returned"
  /\ other.i > 0
  /\ other.runningChanged
  /\ ~other.changed
  /\ W_A \in DOMAIN results
  /\ W_A \in DOMAIN other.results
  /\ results[W_A].authority_edges = <<>>
  /\ Len(other.results[W_A].authority_edges) = 2
  /\ other.results[W_A].authority_edges[1].src = 2

====
